---- MODULE Spec2Model ----
(***************************************************************************)
(* Model of scripts/upload_to_dune.py: the fetch -> verify -> clean ->     *)
(* upload pipeline run by main(), and clean_validator_data called on its   *)
(* own.  A DataFrame is a set of column names and a sequence of rows; a    *)
(* row maps every column to a cell.  Time is counted in days.              *)
(***************************************************************************)
EXTENDS Integers, Sequences, FiniteSets, TLC

\* Largest number of JSON objects in the feed.
MaxRows == 2

\* timedelta(days=7)
WeekDays == 7

(***************************************************************************)
(* Cells.  k is the kind of the value, v its number, s its characters      *)
(* (for a Timestamp: its tzinfo, <<>> when naive).                         *)
(***************************************************************************)
NaN == [k |-> "nan", v |-> 0, s |-> <<>>]
NaT == [k |-> "nat", v |-> 0, s |-> <<>>]
Num(n) == [k |-> "num", v |-> n, s |-> <<>>]
Str(chars) == [k |-> "str", v |-> 0, s |-> chars]
Timestamp(day, tzinfo) == [k |-> "ts", v |-> day, s |-> tzinfo]
utc == <<"UTC">>

isna(c) == c.k \in {"nan", "nat"}

Digits == <<"0", "1", "2", "3", "4", "5", "6", "7", "8", "9">>
IsDigit(ch) == \E i \in 1..Len(Digits) : Digits[i] = ch
DigitVal(ch) == (CHOOSE i \in 1..Len(Digits) : Digits[i] = ch) - 1
AllDigits(chars) == Len(chars) > 0 /\ \A i \in 1..Len(chars) : IsDigit(chars[i])

RECURSIVE Decimal(_)
Decimal(chars) ==
    IF chars = <<>> THEN 0
    ELSE Decimal(SubSeq(chars, 1, Len(chars) - 1)) * 10 + DigitVal(chars[Len(chars)])

\* pd.to_numeric(errors='coerce') on one value
to_numeric(c) ==
    IF c.k = "num" THEN c
    ELSE IF c.k = "str" /\ AllDigits(c.s) THEN Num(Decimal(c.s))
    ELSE NaN

\* pd.to_datetime(errors='coerce') on one value; a date string is "D" then the day
to_datetime(c) ==
    IF c.k = "ts" THEN c
    ELSE IF c.k = "str" /\ Len(c.s) > 1 /\ c.s[1] = "D" /\ AllDigits(Tail(c.s))
         THEN Timestamp(Decimal(Tail(c.s)), <<>>)
    ELSE NaT

(***************************************************************************)
(* DataFrames                                                              *)
(***************************************************************************)
DataFrame(data) ==
    LET cols == UNION {DOMAIN data[i] : i \in 1..Len(data)}
    IN  [columns |-> cols,
         rows |-> [i \in 1..Len(data) |->
                     [c \in cols |-> IF c \in DOMAIN data[i] THEN data[i][c] ELSE NaN]]]

Complete(r, subset) == \A c \in subset : ~isna(r[c])

\* df.dropna(subset=...): KeyError when a column of subset is not in df
dropna(df, subset) ==
    IF ~(subset \subseteq df.columns)
    THEN [raised |-> "KeyError", df |-> df]
    ELSE [raised |-> "none",
          df |-> [df EXCEPT !.rows = SelectSeq(df.rows, LAMBDA r : Complete(r, subset))]]

cols_to_numeric ==
    {"validators", "entry_queue", "entry_wait", "exit_queue", "exit_wait",
     "supply", "staked_amount", "staked_percent", "apr"}

required_cols ==
    {"validators", "entry_queue", "entry_wait", "exit_queue", "exit_wait",
     "supply", "staked_amount", "staked_percent", "apr"}

\* lines 47-51: to_numeric on the columns of cols_to_numeric that exist
coerce_columns(df) ==
    [df EXCEPT !.rows =
       [i \in 1..Len(df.rows) |->
          [c \in df.columns |->
             IF c \in cols_to_numeric THEN to_numeric(df.rows[i][c])
             ELSE df.rows[i][c]]]]

\* fetch_validator_data without its to_numeric loop
fetch_validator_data_uncoerced(data) ==
    dropna(DataFrame(data), cols_to_numeric)

\* fetch_validator_data without its dropna
fetch_validator_data_undropped(data) ==
    [raised |-> "none", df |-> coerce_columns(DataFrame(data))]

\* lines 38-60: DataFrame, to_numeric on the columns that exist, dropna
fetch_validator_data(data) ==
    dropna(coerce_columns(DataFrame(data)), cols_to_numeric)

date_column(df) ==
    IF "timestamp" \in df.columns THEN "timestamp"
    ELSE IF "date" \in df.columns THEN "date"
    ELSE "None"

\* Series.max(): the largest non-missing value, NaT when there is none
SeriesMax(cells) ==
    LET vals == {cells[i] : i \in 1..Len(cells)} \ {NaN, NaT}
    IN  IF vals = {} THEN NaT
        ELSE CHOOSE t \in vals : \A u \in vals : u.v <= t.v

\* latest_date.replace(tzinfo=timezone.utc) when latest_date is naive
AsUTC(t) == IF t.s = <<>> THEN Timestamp(t.v, utc) ELSE t

\* the comparison of line 88 with <= for <
IsOutdated_inclusive(latest, threshold) == latest.v <= threshold.v

\* line 88: latest_date < one_week_ago
IsOutdated(latest, threshold) == latest.v < threshold.v

\* lines 62-91; now is datetime.now(timezone.utc)
verify_recent_data(df, now) ==
    LET col == date_column(df)
        df1 == IF col = "None" THEN df
               ELSE [df EXCEPT !.rows =
                       [i \in 1..Len(df.rows) |->
                          [df.rows[i] EXCEPT ![col] = to_datetime(df.rows[i][col])]]]
        latest == IF col = "None" THEN NaT
                  ELSE SeriesMax([i \in 1..Len(df1.rows) |-> df1.rows[i][col]])
        one_week_ago == Timestamp(now.v - WeekDays, now.s)
    IN  IF col = "None"
        THEN [raised |-> "none", outcome |-> "Skipped", df |-> df,
              latest_date |-> NaT, one_week_ago |-> NaT]
        ELSE IF isna(latest)
        THEN [raised |-> "ValueError", outcome |-> "Undetermined", df |-> df1,
              latest_date |-> NaT, one_week_ago |-> NaT]
        ELSE IF IsOutdated(AsUTC(latest), one_week_ago)
        THEN [raised |-> "ValueError", outcome |-> "Stale", df |-> df1,
              latest_date |-> AsUTC(latest), one_week_ago |-> one_week_ago]
        ELSE [raised |-> "none", outcome |-> "Pass", df |-> df1,
              latest_date |-> AsUTC(latest), one_week_ago |-> one_week_ago]

\* lines 93-129: df.iloc[-1], dropna, df['date']
clean_validator_data(df) ==
    IF Len(df.rows) = 0
    THEN [raised |-> "IndexError", df |-> df]
    ELSE LET d == dropna(df, required_cols)
         IN  IF d.raised # "none" THEN d
             ELSE IF "date" \notin d.df.columns
             THEN [raised |-> "KeyError", df |-> d.df]
             ELSE d

\* df.to_csv(index=False): a header line and one line per row
to_csv(df) == [header |-> df.columns, lines |-> df.rows]

(***************************************************************************)
(* Inputs                                                                  *)
(***************************************************************************)
Today == WeekDays + 1
\* readings of datetime.now(timezone.utc)
Clock == {Timestamp(Today, utc), Timestamp(Today + 1, utc)}
\* days written in the feed: around the thresholds of Clock
FeedDays == {Today - WeekDays, Today - WeekDays + 1}
ISODate(day) == Str(<<"D", Digits[day + 1]>>)
DateCells == {ISODate(d) : d \in FeedDays} \cup {Str(<<"n", "a">>)}

\* the date columns a feed can carry
Layouts == {{}, {"date"}, {"timestamp"}, {"timestamp", "date"}}

BaseCell(c) == IF c \in {"validators", "apr"} THEN Str(<<"1", "0">>) ELSE Num(3)
FieldCells == {"base", "null", "text"}

\* One JSON object: every required field but fld as in BaseCell, fld as kind
\* says (left out of the object when absent), the first date column of the
\* layout holding dc, a second date column holding the latest feed day.
FeedRecord(fld, absent, kind, layout, dc) ==
    [c \in (required_cols \ (IF absent THEN {fld} ELSE {})) \cup layout |->
        IF c \in required_cols
        THEN IF c # fld \/ kind = "base" THEN BaseCell(c)
             ELSE IF kind = "null" THEN NaN
             ELSE Str(<<"x">>)
        ELSE IF c = "timestamp" \/ layout = {"date"} THEN dc
        ELSE ISODate(Today - WeekDays + 1)]

FeedRecords(fld, absent, layout) ==
    {FeedRecord(fld, absent, kind, layout, dc) :
        kind \in (IF absent THEN {"base"} ELSE FieldCells),
        dc \in (IF layout = {} THEN {NaN} ELSE DateCells)}

Feeds(fld, absent, layout) ==
    UNION {[1..n -> FeedRecords(fld, absent, layout)] : n \in 0..MaxRows}

\* values of the FORCE_UPLOAD environment variable; "None" when it is not set
EnvVals == {"None", "True", "yes", "0"}
lower(str) == IF str = "True" THEN "true" ELSE str
getenv(val, default) == IF val = "None" THEN default ELSE val

\* what DuneClient.from_env() and dune.upload_csv() can do
SinkOutcomes == {"NoApiKey", "Raises", "True", "False", "Table", "Other"}

(***************************************************************************)
(* State                                                                   *)
(***************************************************************************)
VARIABLES
    entry,          \* the function that is run: "main" or "clean_validator_data"
    pc,             \* stage of the run
    failedAt,       \* stage at which an exception left main, "none" before
    error,          \* the exception, "none" before
    exitCode,       \* exit code of the process, -1 while it runs
    data,           \* response.json() of the feed
    df,             \* main's df
    arg,            \* the table passed to the last function called on one
    outcome,        \* how verify_recent_data ended
    latest_date,    \* verify_recent_data's latest_date
    one_week_ago,   \* verify_recent_data's one_week_ago
    now,            \* the datetime.now(timezone.utc) it read
    force_upload,   \* main's force_upload, "unread" until line 177 runs
    result,         \* what upload_to_dune returned
    sent,           \* the csv_data of every dune.upload_csv call
    printed,        \* the last status line printed
    calls           \* the functions main has called, in order

vars == <<entry, pc, failedAt, error, exitCode, data, df, arg, outcome,
          latest_date, one_week_ago, now, force_upload, result, sent, printed,
          calls>>

EmptyFrame == [columns |-> {}, rows |-> <<>>]

Init ==
    /\ entry \in {"main", "clean_validator_data"}
    /\ pc = IF entry = "main" THEN "Fetching" ELSE "Call"
    /\ failedAt = "none"
    /\ error = "none"
    /\ exitCode = -1
    /\ data = <<>>
    /\ df = EmptyFrame
    /\ arg = EmptyFrame
    /\ outcome = "none"
    /\ latest_date = NaT
    /\ one_week_ago = NaT
    /\ now = NaT
    /\ force_upload = "unread"
    /\ result = "none"
    /\ sent = <<>>
    /\ printed = "none"
    /\ calls = <<>>

\* main's except Exception: print, raise e (line 193-195)
Fail(stage, exc) ==
    /\ pc' = "Failed"
    /\ failedAt' = stage
    /\ error' = exc
    /\ exitCode' = 1
    /\ printed' = "Error occurred"

\* line 169: requests.get fails, response.json() fails, or the feed is read
FetchError ==
    /\ entry = "main" /\ pc = "Fetching"
    /\ \E exc \in {"TransportError", "FormatError"} : Fail("Fetching", exc)
    /\ calls' = Append(calls, "fetch_validator_data")
    /\ UNCHANGED <<entry, data, df, arg, outcome, latest_date, one_week_ago, now,
                   force_upload, result, sent>>

Fetch ==
    /\ entry = "main" /\ pc = "Fetching"
    /\ \E fld \in required_cols, absent \in BOOLEAN, layout \in Layouts :
         \E d \in Feeds(fld, absent, layout) :
            LET r == fetch_validator_data(d)
            IN  /\ data' = d
                /\ IF r.raised # "none"
                   THEN Fail("Fetching", r.raised) /\ df' = df
                   ELSE /\ df' = r.df
                        /\ pc' = "Verifying"
                        /\ UNCHANGED <<failedAt, error, exitCode, printed>>
    /\ calls' = Append(calls, "fetch_validator_data")
    /\ UNCHANGED <<entry, arg, outcome, latest_date, one_week_ago, now,
                   force_upload, result, sent>>

\* lines 173-181
Verify ==
    /\ entry = "main" /\ pc = "Verifying"
    /\ \E clock \in Clock :
         LET r == verify_recent_data(df, clock)
         IN  /\ arg' = df
             /\ now' = clock
             /\ df' = r.df
             /\ outcome' = r.outcome
             /\ latest_date' = r.latest_date
             /\ one_week_ago' = r.one_week_ago
             /\ IF r.raised = "ValueError"
                THEN \E val \in EnvVals :
                       /\ force_upload' =
                            IF lower(getenv(val, "false")) \in {"true", "1", "yes"}
                            THEN "True" ELSE "False"
                       /\ IF force_upload' = "True"
                          THEN /\ pc' = "Cleaning"
                               /\ printed' = "Warning"
                               /\ UNCHANGED <<failedAt, error, exitCode>>
                          ELSE Fail("Verifying", "ValueError")
                ELSE /\ pc' = "Cleaning"
                     /\ UNCHANGED <<failedAt, error, exitCode, printed, force_upload>>
    /\ calls' = Append(calls, "verify_recent_data")
    /\ UNCHANGED <<entry, data, result, sent>>

\* line 185
Clean ==
    /\ entry = "main" /\ pc = "Cleaning"
    /\ LET r == clean_validator_data(df)
       IN  /\ arg' = df
           /\ IF r.raised # "none"
              THEN Fail("Cleaning", r.raised) /\ df' = df
              ELSE /\ df' = r.df
                   /\ pc' = "Publishing"
                   /\ UNCHANGED <<failedAt, error, exitCode, printed>>
    /\ calls' = Append(calls, "clean_validator_data")
    /\ UNCHANGED <<entry, data, outcome, latest_date, one_week_ago, now,
                   force_upload, result, sent>>

\* upload_to_dune calling upload_csv a second time when the first call raised
upload_to_dune_retried(frame, sink) ==
    IF sink = "NoApiKey"
    THEN [raised |-> "SinkAuthError", sent |-> <<>>, result |-> "none"]
    ELSE IF sink = "Raises"
    THEN [raised |-> "SinkError", sent |-> <<to_csv(frame), to_csv(frame)>>,
          result |-> "none"]
    ELSE [raised |-> "none", sent |-> <<to_csv(frame)>>, result |-> sink]

\* lines 131-160, on what the sink does
upload_to_dune(frame, sink) ==
    IF sink = "NoApiKey"
    THEN [raised |-> "SinkAuthError", sent |-> <<>>, result |-> "none"]
    ELSE IF sink = "Raises"
    THEN [raised |-> "SinkError", sent |-> <<to_csv(frame)>>, result |-> "none"]
    ELSE [raised |-> "none", sent |-> <<to_csv(frame)>>, result |-> sink]

\* lines 189-191: the returned table is not looked at
Upload ==
    /\ entry = "main" /\ pc = "Publishing"
    /\ \E sink \in SinkOutcomes :
         LET r == upload_to_dune(df, sink)
         IN  /\ sent' = sent \o r.sent
             /\ result' = r.result
             /\ IF r.raised # "none"
                THEN Fail("Publishing", r.raised)
                ELSE /\ pc' = "Done"
                     /\ exitCode' = 0
                     /\ printed' = "Process completed successfully!"
                     /\ UNCHANGED <<failedAt, error>>
    /\ calls' = Append(calls, "upload_to_dune")
    /\ UNCHANGED <<entry, data, df, arg, outcome, latest_date, one_week_ago, now,
                   force_upload>>

\* clean_validator_data called on a table that did not go through main
CallClean ==
    /\ entry = "clean_validator_data" /\ pc = "Call"
    /\ \E fld \in required_cols, absent \in BOOLEAN, layout \in Layouts :
         \E d \in Feeds(fld, absent, layout) :
            LET r == clean_validator_data(DataFrame(d))
            IN  /\ arg' = DataFrame(d)
                /\ df' = r.df
                /\ error' = r.raised
                /\ pc' = IF r.raised = "none" THEN "Returned" ELSE "Raised"
    /\ UNCHANGED <<entry, failedAt, exitCode, data, outcome, latest_date,
                   one_week_ago, now, force_upload, result, sent, printed, calls>>

Next == FetchError \/ Fetch \/ Verify \/ Clean \/ Upload \/ CallClean

Spec == Init /\ [][Next]_vars

(***************************************************************************)
(* Properties                                                              *)
(***************************************************************************)
FetchReturned == entry = "main" /\ Len(calls) >= 1 /\ failedAt # "Fetching"
VerifyCalled == entry = "main" /\ Len(calls) >= 2
JustVerified == entry = "main" /\ Len(calls) = 2
CleanCalled ==
    \/ entry = "main" /\ Len(calls) >= 3
    \/ entry = "clean_validator_data" /\ pc # "Call"
CleanRaised ==
    \/ entry = "main" /\ pc = "Failed" /\ failedAt = "Cleaning"
    \/ entry = "clean_validator_data" /\ pc = "Raised"
CleanReturned == CleanCalled /\ ~CleanRaised
UploadCalled == entry = "main" /\ Len(calls) = 4
FailedAt(stage) == pc = "Failed" /\ failedAt = stage /\ exitCode # 0

\* the parsed values of the date column of a table, its unparseable ones left out
ParsedDates(frame) ==
    {to_datetime(frame.rows[i][date_column(frame)]) : i \in 1..Len(frame.rows)} \ {NaT}

\* a JSON object with a number, or something that reads as one, in every required field
CompleteObject(obj) ==
    \A c \in required_cols : c \in DOMAIN obj /\ to_numeric(obj[c]).k = "num"
CompleteObjects(feed) == {i \in 1..Len(feed) : CompleteObject(feed[i])}

NumericRows(rows) ==
    \A i \in 1..Len(rows) : \A c \in required_cols :
        c \in DOMAIN rows[i] /\ rows[i][c].k = "num"

\* C1: main ends Done with exit code 0 only when the sink reported success
\* (True, a table, or an unrecognised shape); when upload_csv returns False or
\* raises, the run ends Failed at Publishing with a non-zero exit.
C1_DoneOnlyOnSinkSuccess ==
    UploadCalled =>
        IF result \in {"True", "Table", "Other"}
        THEN pc = "Done" /\ exitCode = 0
        ELSE FailedAt("Publishing")

\* C2: when the date column exists and none of its values parses, the run is
\* Failed at Verifying and nothing is cleaned or uploaded, whatever
\* FORCE_UPLOAD holds.
C2_UnparseableDatesAlwaysFail ==
    (VerifyCalled /\ date_column(df) # "None" /\ Len(df.rows) > 0
        /\ ParsedDates(df) = {}) =>
        /\ FailedAt("Verifying")
        /\ Len(calls) = 2
        /\ sent = <<>>

\* C3: main goes on from verify to clean exactly when verify passed, was
\* skipped, or found the data stale with the override set; otherwise the run
\* is Failed at Verifying with neither clean nor upload called.
C3_CleaningExactlyOnPassSkipOrForcedStale ==
    VerifyCalled =>
        LET go == \/ outcome \in {"Pass", "Skipped"}
                  \/ outcome = "Stale" /\ force_upload = "True"
        IN  IF go
            THEN ~(pc = "Failed" /\ failedAt = "Verifying")
            ELSE FailedAt("Verifying") /\ Len(calls) = 2 /\ sent = <<>>

\* C4: clean_validator_data never raises, and returns no more rows than it
\* was given.
C4_CleanIsTotal ==
    CleanCalled => ~CleanRaised /\ Len(df.rows) <= Len(arg.rows)

\* C5: when a required column is absent from a non-empty table, cleaning
\* (the dropna of fetch_validator_data and of clean_validator_data) returns
\* an empty table instead of raising.
C5_AbsentColumnDropsEveryRow ==
    /\ (entry = "clean_validator_data" /\ pc # "Call" /\ Len(arg.rows) > 0
          /\ ~(required_cols \subseteq arg.columns))
         => pc = "Returned" /\ df.rows = <<>>
    /\ (entry = "main" /\ Len(calls) = 1 /\ Len(data) > 0
          /\ ~(required_cols \subseteq DataFrame(data).columns))
         => pc = "Verifying" /\ df.rows = <<>>

\* C6: when every object of the feed is incomplete, the run does not fail
\* while fetching or cleaning, and what it uploads is a header with no rows.
C6_AllRowsDroppedStillPublishes ==
    (entry = "main" /\ Len(data) > 0 /\ CompleteObjects(data) = {}) =>
        /\ ~(pc = "Failed" /\ failedAt \in {"Fetching", "Cleaning"})
        /\ UploadCalled /\ error # "SinkAuthError" =>
              Len(sent) = 1 /\ sent[1].lines = <<>>

\* C7 (as stated): every row clean_validator_data returns holds a number in
\* each required field, clean itself turning what cannot be coerced into a
\* missing value.
C7_CleanCoercesAndDrops ==
    CleanReturned => NumericRows(df.rows)

\* C7 (amended): in a run of main the rows clean_validator_data returns, and
\* the rows uploaded, hold a number in each required field, because
\* fetch_validator_data coerced them; clean_validator_data on its own keeps
\* exactly the rows without a missing required value, as they are.
C7_NumericAfterFetchCoercion ==
    /\ (entry = "main" /\ CleanReturned) => NumericRows(df.rows)
    /\ \A i \in 1..Len(sent) : NumericRows(sent[i].lines)
    /\ (entry = "clean_validator_data" /\ pc = "Returned") =>
          df.rows = SelectSeq(arg.rows,
                              LAMBDA r : \A c \in required_cols : r[c] # NaN)

C7_Witness ==
    /\ entry = "main" /\ pc = "Done"
    /\ Len(df.rows) > 0
    /\ \E i \in 1..Len(data) : \E c \in required_cols : data[i][c].k = "str"
    /\ \E i \in 1..Len(data) : ~CompleteObject(data[i])

\* C8: with a date column holding at least one value that parses, verify
\* finds the data stale exactly when every parsed value, read as UTC, is
\* earlier than now minus 7 days, and passes otherwise; latest_date is one
\* of the parsed values.
C8_StaleIffLatestBeforeThreshold ==
    (JustVerified /\ date_column(arg) # "None" /\ ParsedDates(arg) # {}) =>
        /\ outcome \in {"Stale", "Pass"}
        /\ outcome = "Stale" <=> \A t \in ParsedDates(arg) : t.v < now.v - WeekDays
        /\ latest_date.s = utc
        /\ \E t \in ParsedDates(arg) : t.s = <<>> /\ t.v = latest_date.v

C8_Witness ==
    /\ JustVerified /\ outcome = "Pass"
    /\ latest_date.v = now.v - WeekDays
    /\ ParsedDates(arg) # {}
    /\ \E i \in 1..Len(arg.rows) : to_datetime(arg.rows[i][date_column(arg)]) = NaT

\* C9: dune.upload_csv is called at most once in a run, once in a run that
\* ends Done, and only after fetch, verify and clean were called in that
\* order and let the run go on; a run that failed before Publishing sent
\* nothing.
C9_OneSinkCallAfterAllStages ==
    /\ Len(sent) <= 1
    /\ pc = "Done" => Len(sent) = 1
    /\ Len(sent) = 1 =>
          /\ calls = <<"fetch_validator_data", "verify_recent_data",
                       "clean_validator_data", "upload_to_dune">>
          /\ failedAt \in {"none", "Publishing"}
    /\ (pc = "Failed" /\ failedAt # "Publishing") => sent = <<>>

C9_Witness == pc = "Done" /\ Len(sent) = 1 /\ Len(calls) = 4

\* C10 (as stated): the table verify receives holds one row per object of the
\* feed, and latest_date is the latest parseable date of all of them.
C10_OneRowPerObject ==
    /\ (FetchReturned /\ pc = "Verifying") => Len(df.rows) = Len(data)
    /\ (JustVerified /\ outcome \in {"Pass", "Stale"}) =>
          \A i \in 1..Len(data) :
             LET t == to_datetime(data[i][date_column(arg)])
             IN  t # NaT => t.v <= latest_date.v

\* C10 (amended): the table verify receives holds one row per object of the
\* feed that is complete in the required fields, in feed order, and
\* latest_date is the latest parseable date of those objects only.
C10_OneRowPerCompleteObject ==
    /\ (FetchReturned /\ pc = "Verifying") =>
          /\ Len(df.rows) = Cardinality(CompleteObjects(data))
          /\ \A i \in 1..Len(df.rows) :
                \E j \in CompleteObjects(data) :
                   /\ Cardinality({m \in CompleteObjects(data) : m <= j}) = i
                   /\ \A c \in DOMAIN data[j] :
                         df.rows[i][c] = IF c \in required_cols
                                         THEN to_numeric(data[j][c]) ELSE data[j][c]
    /\ (JustVerified /\ outcome \in {"Pass", "Stale"}) =>
          LET dates == {to_datetime(data[j][date_column(arg)]) :
                           j \in CompleteObjects(data)} \ {NaT}
          IN  /\ \E t \in dates : t.v = latest_date.v
              /\ \A t \in dates : t.v <= latest_date.v

C10_Witness ==
    /\ JustVerified /\ outcome = "Stale"
    /\ \E i \in 1..Len(data) :
          /\ ~CompleteObject(data[i])
          /\ to_datetime(data[i][date_column(arg)]) # NaT
          /\ to_datetime(data[i][date_column(arg)]).v >= one_week_ago.v

====
